---- MODULE Spec2Model ----
(***************************************************************************)
(* A model of supar's second-order semantic dependency pipeline:           *)
(*   src/supar/models/srl.py   VISemanticRoleLabelingModel                 *)
(*                             (__init__, forward, loss, decode)           *)
(*   src/supar/parsers/sdp.py  BiaffineSemanticDependencyParser and        *)
(*                             VISemanticDependencyParser                  *)
(*                             (_train, _evaluate, _predict)               *)
(*                                                                         *)
(* Tensors are functions over index tuples; indices are 0-based as in the  *)
(* source, so index 0 is the root position.  One element of the batch is   *)
(* modelled: every operation of the source is independent across the batch *)
(* dimension, so dimension 0 of the source's tensors is dropped and        *)
(* permute(0, 3, 1, 2) acts on the remaining three dimensions.             *)
(***************************************************************************)
EXTENDS Integers, Sequences, FiniteSets, TLC

\* ------------------------------------------------------------------ bounds
\* seq_len: the padded length of the batch, root position included
MaxLen == 3
\* the largest max_iter a configuration passes to __init__
MaxIter == 4
\* n_labels: the number of labels of the treebank
NLabels == 2
\* marginals are the fractions n / ProbDen, n in 0..ProbDen
ProbDen == 2

Idx == 0..(MaxLen - 1)
Pos2 == Idx \X Idx
Pos3 == Idx \X Idx \X Idx

Min(a, b) == IF a <= b THEN a ELSE b
Max(a, b) == IF a <= b THEN b ELSE a

VARIABLES
    pc,         \* where the modelled object is in its life
    args,       \* the keyword arguments __init__ was called with
    inference,  \* self.inference: the engine __init__ constructed
    raw_sib,    \* what self.sib_attn(pair_d, pair_d, pair_h) returned
    raw_cop,    \* what self.cop_attn(pair_h, pair_d, pair_h) returned
    s_sib,      \* forward()'s returned sibling potential
    s_cop,      \* forward()'s returned co-parent potential
    handler,    \* the parser and the operation that is processing the batch
    focus,      \* the position where the batch's tensors leave their background
    batch_mask, \* batch.mask: the per-token mask, owned by the batch
    labels,     \* the gold labels of the batch
    mask,       \* the local name mask: the pairwise mask
    s_edge,     \* what the local name s_edge is bound to, with its producer
    s_label,    \* the label scores forward() returned
    gold,       \* the gold arc indicator loss() passes to the engine
    ce,         \* the rows loss() passes to self.criterion
    label_preds, \* what self.model.decode returned
    reported,   \* what is handed to ChartMetric or to CoNLL.build_relations
    loss_value, \* the loss loss() returned: finite or not a number
    batch_no,   \* i of "for i, batch in enumerate(bar, 1)": the batches taken
    update_steps, \* self.args.update_steps
    grad,       \* the gradients held by the parameters
    oplog,      \* the optimisation calls made in the current iteration, in order
    applied,    \* the gradients each call of self.scaler.step(self.optimizer) found
    opt_steps,  \* how often self.scaler.step(self.optimizer) has run
    sched_steps, \* how often self.scheduler.step() has run
    metric      \* the local name metric: the running ChartMetric

modelvars == <<args, inference, raw_sib, raw_cop, s_sib, s_cop>>
batchvars == <<handler, focus, batch_mask, labels, mask, s_edge, s_label,
               gold, ce, label_preds, reported, loss_value>>
loopvars == <<batch_no, update_steps, grad, oplog, applied, opt_steps, sched_steps,
              metric>>
vars == <<pc, modelvars, batchvars, loopvars>>

\* the value of a name that is not bound yet
Unset == <<>>

\* no batch is being processed: none of the loop body's names is bound
NoBatch ==
    /\ handler = Unset
    /\ focus = Unset
    /\ batch_mask = Unset
    /\ labels = Unset
    /\ mask = Unset
    /\ s_edge = Unset
    /\ s_label = Unset
    /\ gold = Unset
    /\ ce = Unset
    /\ label_preds = Unset
    /\ reported = Unset
    /\ loss_value = Unset

\* no loop over a loader is being followed
NoLoop ==
    /\ batch_no = Unset
    /\ update_steps = Unset
    /\ grad = Unset
    /\ oplog = Unset
    /\ applied = Unset
    /\ opt_steps = Unset
    /\ sched_steps = Unset
    /\ metric = Unset

\* --------------------------------------------------------- tensor algebra
\* torch.triu(t, diagonal) on the last two dimensions of a 3-d tensor:
\* keeps the entries with col - row >= diagonal, zero elsewhere
triu(t, diagonal) ==
    [p \in Pos3 |-> IF p[3] - p[2] >= diagonal THEN t[p] ELSE 0]

\* t.transpose(-1, -2)
transpose(t) == [p \in Pos3 |-> t[<<p[1], p[3], p[2]>>]]

\* t.permute(0, 3, 1, 2): new dims (1,2,3) are old dims (3,1,2)
permute(t) == [p \in Pos3 |-> t[<<p[2], p[3], p[1]>>]]

\* elementwise t + u
Add(t, u) == [p \in Pos3 |-> t[p] + u[p]]

\* ---------------------------------------------------------------- forward
\* s_sib = (s_sib.triu() + s_sib.triu(1).transpose(-1, -2)).permute(0, 3, 1, 2)
SibUntransposed(raw) == permute(Add(triu(raw, 0), triu(raw, 1)))
SibDiagonalTwice(raw) == permute(Add(triu(raw, 0), transpose(triu(raw, 0))))
SibPotential(raw) == permute(Add(triu(raw, 0), transpose(triu(raw, 1))))

\* s_cop = self.cop_attn(...).permute(0, 3, 1, 2)
\* s_cop = s_cop.triu() + s_cop.triu(1).transpose(-1, -2)
CopSymmetrizedFirst(raw) == permute(Add(triu(raw, 0), transpose(triu(raw, 1))))
CopPotential(raw) ==
    LET p == permute(raw) IN Add(triu(p, 0), transpose(triu(p, 1)))

\* --------------------------------------------------------------- __init__
Strategies == {"mfvi", "lbp", "exact"}
DefaultInference == "mfvi"
DefaultMaxIter == 3

\* the keyword arguments a caller may pass: any subset of the two options
InitArgs ==
    {Unset}
        \cup { [inference |-> s] : s \in Strategies }
        \cup { [max_iter |-> m] : m \in 0..MaxIter }
        \cup { [inference |-> s, max_iter |-> m] : s \in Strategies, m \in 0..MaxIter }

\* a parameter's value: the argument when given, else the signature's default
Param(a, k, default) == IF k \in DOMAIN a THEN a[k] ELSE default

\* (MFVISemanticRoleLabeling if inference == 'mfvi' else LBPSemanticRoleLabeling)
EngineSwapped(name) == IF name = "mfvi" THEN "LBP" ELSE "MFVI"
EngineClass(name) == IF name = "mfvi" THEN "MFVI" ELSE "LBP"

Construct(a) ==
    /\ pc = "new"
    /\ pc' = "constructed"
    /\ args' = a
    /\ inference' = [class |-> EngineClass(Param(a, "inference", DefaultInference)),
                     max_iter |-> Param(a, "max_iter", DefaultMaxIter)]
    /\ UNCHANGED <<raw_sib, raw_cop, s_sib, s_cop, batchvars, loopvars>>

\* the scorers' outputs: a pattern in which every triple has its own value,
\* with at most one triple q overwritten by a value of ScoreSpikes
BaseScore == [p \in Pos3 |-> (p[1] * MaxLen + p[2]) * MaxLen + p[3] + 1]
ScoreSpikes == {-1, 0}
RawScores(q) == {BaseScore} \cup { [BaseScore EXCEPT ![q] = v] : v \in ScoreSpikes }

\* forward(), lines 192-196: the two symmetrised second-order potentials
Forward(rs, rc) ==
    /\ pc = "constructed"
    /\ pc' = "forwarded"
    /\ raw_sib' = rs
    /\ raw_cop' = rc
    /\ s_sib' = SibPotential(rs)
    /\ s_cop' = CopPotential(rc)
    /\ UNCHANGED <<args, inference, batchvars, loopvars>>

InitForward ==
    /\ pc = "new"
    /\ args = Unset
    /\ inference = Unset
    /\ raw_sib = Unset
    /\ raw_cop = Unset
    /\ s_sib = Unset
    /\ s_cop = Unset
    /\ NoBatch
    /\ NoLoop

NextForward ==
    \/ \E a \in InitArgs : Construct(a)
    \/ \E q \in Pos3 : \E rs \in RawScores(q), rc \in RawScores(q) : Forward(rs, rc)

SpecForward == InitForward /\ [][NextForward]_vars

\* ------------------------------------------------- 2-d tensors and values
Labels == 0..(NLabels - 1)
LabelVals == {-1} \cup Labels

\* a marginal is the fraction <<n, d>>; x < y on fractions
Probs == { <<n, ProbDen>> : n \in 0..ProbDen }
Half == <<1, 2>>
RatLt(x, y) == x[1] * y[2] < y[1] * x[2]

\* a tensor over Pos2 that is a everywhere but b at q
Spiked(q, a, b) == [p \in Pos2 |-> IF p = q THEN b ELSE a]

\* t.ge(0), t.lt(c), a & b, ~a, b.long(), t.masked_fill(m, v)
ge(t, c) == [p \in Pos2 |-> t[p] >= c]
le(t, c) == [p \in Pos2 |-> ~RatLt(c, t[p])]
lt(t, c) == [p \in Pos2 |-> RatLt(t[p], c)]
And(a, b) == [p \in Pos2 |-> a[p] /\ b[p]]
Not(a) == [p \in Pos2 |-> ~a[p]]
long(b) == [p \in Pos2 |-> IF b[p] THEN 1 ELSE 0]
masked_fill(t, m, v) == [p \in Pos2 |-> IF m[p] THEN v ELSE t[p]]

\* v.argmax(): the index of the first maximal value
argmaxvec(v) ==
    CHOOSE l \in DOMAIN v :
        /\ \A k \in DOMAIN v : v[k] <= v[l]
        /\ \A k \in DOMAIN v : k < l => v[k] < v[l]
\* t.argmax(-1)
argmax(t) == [p \in Pos2 |-> argmaxvec(t[p])]

\* t[m] for a boolean tensor m: the entries of t at the true positions of m,
\* in row-major order
RowMajor == [k \in 1..(MaxLen * MaxLen) |-> <<(k - 1) \div MaxLen, (k - 1) % MaxLen>>]
Selected(m) == LET Test(p) == m[p] IN SelectSeq(RowMajor, Test)
Index(t, m) == LET ps == Selected(m) IN [k \in 1..Len(ps) |-> t[ps[k]]]

\* ------------------------------------------------------------ the batches
Parsers == {"biaffine", "vi"}
Ops == {"train", "evaluate", "predict"}
Handlers == [parser : Parsers, op : Ops]

\* batch.mask of a sentence of len unpadded positions (the root included)
\* padded to MaxLen; a sentence has the root and at least one token
TokenMask(len) == [i \in Idx |-> i < len]
Lens == 2..MaxLen

\* the gold label charts: -1 where the treebank has no arc
GoldLabels(q) == { Spiked(q, a, b) : a \in {-1, 0}, b \in LabelVals }

\* the scorers' outputs
UnaryScores == { [p \in Pos2 |-> p[1] - p[2]] }
OneHot(l) == [k \in Labels |-> IF k = l THEN 1 ELSE 0]
Tie == [k \in Labels |-> 0]
LabelVecs == {Tie} \cup { OneHot(l) : l \in Labels }
LabelScores(q) == { Spiked(q, OneHot(NLabels - 1), b) : b \in LabelVecs }

\* what the inference engine may return: a marginal in [0,1] at every position
EngineMarginals(q) ==
    { Spiked(q, a, b) : a \in {<<0, ProbDen>>, <<ProbDen, ProbDen>>}, b \in Probs }

\* what the Biaffine model's decode may return: a label or -1 at every position
BiaffineDecoded(q) == { Spiked(q, a, b) : a \in {-1, 0}, b \in LabelVals }

\* ---------------------------------------------------- the pairwise mask
\* mask.unsqueeze(1) & mask.unsqueeze(2)
PairMask(bm) == [p \in Pos2 |-> bm[p[2]] /\ bm[p[1]]]
\* m[:, 0] = 0 on a pairwise mask (the batch dimension dropped: row 0)
ZeroColumn(m) == [p \in Pos2 |-> IF p[2] = 0 THEN FALSE ELSE m[p]]
ZeroRow(m) == [p \in Pos2 |-> IF p[1] = 0 THEN FALSE ELSE m[p]]
\* m[:, 0] = 0 on the per-token mask (the batch dimension dropped: token 0)
ZeroToken(bm) == [i \in Idx |-> IF i = 0 THEN FALSE ELSE bm[i]]

\* mask = batch.mask; mask = mask.unsqueeze(1) & mask.unsqueeze(2); mask[:, 0] = 0
\* the tensors the three statements leave behind: & allocates its result, so
\* the assignment writes into the new tensor and not into batch.mask
MaskAssignedBeforeAnd(bm) ==
    [batch_mask |-> ZeroToken(bm), mask |-> PairMask(ZeroToken(bm))]
MaskStatements(bm) == [batch_mask |-> bm, mask |-> ZeroRow(PairMask(bm))]

\* ------------------------------------------------------------ loss, decode
\* edge_mask = labels.ge(0) & mask
EdgeMaskUnmasked(lab, m) == ge(lab, 0)
EdgeMask(lab, m) == And(ge(lab, 0), m)

\* self.criterion = nn.CrossEntropyLoss(): the mean, over the rows it is given,
\* of the rows' negative log-likelihoods, a sum of finite terms divided by the
\* number of rows; over no rows that is 0 / 0, not a number
CrossEntropyMean(input, target) == IF Len(input) = 0 THEN "nan" ELSE "finite"

\* the edge loss the engine returns for finite scores
EngineLoss == "finite"

\* self.args.interpolation * label_loss + (1 - self.args.interpolation) * edge_loss
Interpolate(label_loss, edge_loss) ==
    IF label_loss = "nan" \/ edge_loss = "nan" THEN "nan" ELSE "finite"

\* loss(): what it passes to the engine as gold, what it passes to the
\* criterion, the loss it returns and the marginals it returns (the engine's, m)
loss(sl, lab, msk, m) ==
    LET edge_mask == EdgeMask(lab, msk)
        input == Index(sl, edge_mask)
        target == Index(lab, edge_mask) IN
    [gold |-> long(edge_mask),
     ce |-> [input |-> input, target |-> target],
     loss |-> Interpolate(CrossEntropyMean(input, target), EngineLoss),
     marginals |-> m]

\* VI _train, _evaluate: "loss, s_edge = self.model.loss(...)" binds the name
\* s_edge, which held the scorer's unary scores, to the second value returned;
\* "loss = self.model.loss(...)" would leave the name as it was
LossOnly(se, r) == se
LossAndMarginals(se, r) == [by |-> "engine", val |-> r.marginals]

\* return s_label.argmax(-1).masked_fill_(s_egde.lt(0.5), -1)
decodeLe(se, sl) == masked_fill(argmax(sl), le(se, Half), -1)
decode(se, sl) == masked_fill(argmax(sl), lt(se, Half), -1)

\* label_preds.masked_fill(~mask, -1)
PredsUnfiltered(preds, m) == preds
FilterPreds(preds, m) == masked_fill(preds, Not(m), -1)

\* lens = (batch.lens - 1), batch.lens the number of unpadded positions
BatchLens(bm) == Cardinality({ i \in Idx : bm[i] })
\* chart[1:i, :i]
Slice(chart, i) == [p \in (1..(i - 1)) \X (0..(i - 1)) |-> chart[p]]

\* if self.args.prob: batch.probs = [prob[1:i, :i].cpu() for i, prob in
\* zip(lens, s_edge.unbind())]; the Biaffine parser takes s_edge.softmax(-1)
Probabilities(h, prob, se, i) ==
    IF ~prob THEN [by |-> "nobody", val |-> Unset]
    ELSE IF h.parser = "vi" THEN [by |-> se.by, val |-> Slice(se.val, i)]
    ELSE [by |-> "softmax", val |-> Unset]

\* ---------------------------------------------------------- the loop body
\* for batch in loader: words, *feats, labels = batch
Load(h, len, q, lab) ==
    /\ pc = "idle"
    /\ pc' = "loaded"
    /\ handler' = h
    /\ focus' = q
    /\ batch_mask' = TokenMask(len)
    /\ labels' = IF h.op = "predict" THEN Unset ELSE lab
    /\ UNCHANGED <<modelvars, loopvars, loss_value, mask, s_edge, s_label, gold, ce, label_preds, reported>>

\* lines 383-385 (132-134, 160-162, 175-177, 411-413, 426-428)
BuildMask ==
    /\ pc = "loaded"
    /\ pc' = "masked"
    /\ batch_mask' = MaskStatements(batch_mask).batch_mask
    /\ mask' = MaskStatements(batch_mask).mask
    /\ UNCHANGED <<modelvars, loopvars, loss_value, handler, focus, labels, s_edge, s_label, gold, ce,
                   label_preds, reported>>

\* VI: s_edge, s_sib, s_cop, s_grd, s_label = self.model(words, feats)
Score(se, sl) ==
    /\ pc = "masked"
    /\ handler.parser = "vi"
    /\ pc' = "scored"
    /\ s_edge' = [by |-> "scorer", val |-> se]
    /\ s_label' = sl
    /\ UNCHANGED <<modelvars, loopvars, loss_value, handler, focus, batch_mask, labels, mask, gold, ce,
                   label_preds, reported>>

\* Biaffine: s_edge, s_label = self.model(words, feats); the scores only go
\* back into the Biaffine model's own loss and decode
BiaffineScore ==
    /\ pc = "masked"
    /\ handler.parser = "biaffine"
    /\ pc' = "scored"
    /\ s_edge' = [by |-> "scorer", val |-> Unset]
    /\ s_label' = Unset
    /\ UNCHANGED <<modelvars, loopvars, loss_value, handler, focus, batch_mask, labels, mask, gold, ce,
                   label_preds, reported>>

\* VI _train, _evaluate: loss, s_edge = self.model.loss(..., labels, mask)
VILoss(m) ==
    /\ pc = "scored"
    /\ handler.parser = "vi"
    /\ handler.op # "predict"
    /\ pc' = "estimated"
    /\ LET r == loss(s_label, labels, mask, m) IN
           /\ gold' = r.gold
           /\ ce' = r.ce
           /\ s_edge' = LossAndMarginals(s_edge, r)
           /\ loss_value' = r.loss
    /\ UNCHANGED <<modelvars, loopvars, handler, focus, batch_mask, labels, mask, s_label,
                   label_preds, reported>>

\* VI _predict: s_edge = self.model.inference((s_edge, s_sib, s_cop, s_grd), mask)
VIInfer(m) ==
    /\ pc = "scored"
    /\ handler.parser = "vi"
    /\ handler.op = "predict"
    /\ pc' = "estimated"
    /\ s_edge' = [by |-> "engine", val |-> m]
    /\ UNCHANGED <<modelvars, loopvars, loss_value, handler, focus, batch_mask, labels, mask, s_label,
                   gold, ce, label_preds, reported>>

\* VI: label_preds = self.model.decode(s_edge, s_label)
VIDecode ==
    /\ pc = "estimated"
    /\ handler.parser = "vi"
    /\ pc' = "decoded"
    /\ label_preds' = decode(s_edge.val, s_label)
    /\ UNCHANGED <<modelvars, loopvars, loss_value, handler, focus, batch_mask, labels, mask, s_edge,
                   s_label, gold, ce, reported>>

\* Biaffine: loss = self.model.loss(s_edge, s_label, labels, mask) where there
\* are labels, then label_preds = self.model.decode(s_edge, s_label); the
\* Biaffine model returns some chart of labels
BiaffineDecode(preds) ==
    /\ pc = "scored"
    /\ handler.parser = "biaffine"
    /\ pc' = "decoded"
    /\ label_preds' = preds
    /\ UNCHANGED <<modelvars, loopvars, loss_value, handler, focus, batch_mask, labels, mask, s_edge,
                   s_label, gold, ce, reported>>

\* _train, _evaluate: ChartMetric(loss, label_preds.masked_fill(~mask, -1),
\*                                labels.masked_fill(~mask, -1))
ReportMetric ==
    /\ pc = "decoded"
    /\ handler.op # "predict"
    /\ pc' = "reported"
    /\ reported' = [preds |-> FilterPreds(label_preds, mask),
                    golds |-> masked_fill(labels, Not(mask), -1)]
    /\ UNCHANGED <<modelvars, loopvars, loss_value, handler, focus, batch_mask, labels, mask, s_edge,
                   s_label, gold, ce, label_preds>>

\* _predict: the filtered chart, cut to chart[1:i, :i], goes to build_relations;
\* with self.args.prob the probabilities are cut the same way
ReportRelations(prob) ==
    /\ pc = "decoded"
    /\ handler.op = "predict"
    /\ pc' = "reported"
    /\ LET lens == BatchLens(batch_mask) - 1
           chart == FilterPreds(label_preds, mask) IN
           reported' = [preds |-> chart, rels |-> Slice(chart, lens),
                        probs |-> Probabilities(handler, prob, s_edge, lens)]
    /\ UNCHANGED <<modelvars, loopvars, loss_value, handler, focus, batch_mask, labels, mask, s_edge,
                   s_label, gold, ce, label_preds>>

\* the loop takes the next batch: the names of the body are bound anew
NextBatch ==
    /\ pc = "reported"
    /\ pc' = "idle"
    /\ handler' = Unset
    /\ focus' = Unset
    /\ batch_mask' = Unset
    /\ labels' = Unset
    /\ mask' = Unset
    /\ s_edge' = Unset
    /\ s_label' = Unset
    /\ gold' = Unset
    /\ ce' = Unset
    /\ label_preds' = Unset
    /\ reported' = Unset
    /\ loss_value' = Unset
    /\ UNCHANGED <<modelvars, loopvars>>

Init ==
    /\ pc = "idle"
    /\ args = Unset
    /\ inference = Unset
    /\ raw_sib = Unset
    /\ raw_cop = Unset
    /\ s_sib = Unset
    /\ s_cop = Unset
    /\ NoBatch
    /\ NoLoop

Next ==
    \/ \E h \in Handlers, len \in Lens, q \in Pos2 : \E lab \in GoldLabels(q) :
           Load(h, len, q, lab)
    \/ BuildMask
    \/ \E se \in UnaryScores, sl \in LabelScores(focus) : Score(se, sl)
    \/ BiaffineScore
    \/ \E m \in EngineMarginals(focus) : VILoss(m)
    \/ \E m \in EngineMarginals(focus) : VIInfer(m)
    \/ VIDecode
    \/ \E preds \in BiaffineDecoded(focus) : BiaffineDecode(preds)
    \/ ReportMetric
    \/ \E prob \in BOOLEAN : ReportRelations(prob)
    \/ NextBatch

Spec == Init /\ [][Next]_vars

\* ------------------------------------------------- the loops over a loader
\* the longest loader followed, and the largest self.args.update_steps
MaxBatches == 7
MaxUpdateSteps == 3

\* the handlers that loop with a metric: _train and _evaluate of both parsers
LoopHandlers == { h \in Handlers : h.op # "predict" }

\* the gradients after optimizer.zero_grad(True), and before any backward
ZeroedGrad == [terms |-> {}, scaled |-> FALSE, clipped |-> "no"]

\* loss = loss / self.args.update_steps: the loss of batch i over U
ScaledLoss(i, U) == <<i, U>>

\* self.scaler.scale(loss).backward(): the scaled gradient of the loss is added
\* to what the parameters hold
backward(g, l) == [terms |-> g.terms \cup {l}, scaled |-> TRUE, clipped |-> "no"]

\* if i % self.args.update_steps == 0, i counted from 1 by enumerate(bar, 1)
UpdateDueFromZero(i, U) == (i - 1) % U = 0
UpdateDue(i, U) == i % U = 0

\* the statements under the if, in the order written
UpdateClipFirst ==
    <<"clip_grad_norm_", "unscale_", "step", "update", "scheduler.step", "zero_grad">>
UpdateStatements ==
    <<"unscale_", "clip_grad_norm_", "step", "update", "scheduler.step", "zero_grad">>

\* self.scaler.unscale_(self.optimizer)
unscale_(g) == [g EXCEPT !.scaled = FALSE]
\* nn.utils.clip_grad_norm_(self.model.parameters(), self.args.clip): clips the
\* gradients as they stand, scaled or not
clip_grad_norm_(g) == [g EXCEPT !.clipped = IF g.scaled THEN "scaled" ELSE "unscaled"]
\* self.optimizer.zero_grad(True)
zero_grad_skipped(g) == g
zero_grad(g) == ZeroedGrad

\* ChartMetric.__add__, taken to return the sum and leave its operands alone;
\* a running metric is told by the batches whose values it sums
MetricAdd(m, x) == m \cup {x}

\* the statement that accounts for the batch: "metric += ChartMetric(...)" in
\* Biaffine _train and both _evaluate, "metric + ChartMetric(...)" in VI _train,
\* an expression whose value is dropped
MetricStatement(h, m, x) ==
    IF h.parser = "vi" /\ h.op = "train" THEN m ELSE MetricAdd(m, x)

\* for i, batch in enumerate(bar, 1): the loader yields another batch
Fetch ==
    /\ pc = "head"
    /\ batch_no < MaxBatches
    /\ batch_no' = batch_no + 1
    /\ oplog' = <<>>
    /\ pc' = IF handler.op = "train" THEN "forward" ELSE "evaluated"
    /\ UNCHANGED <<modelvars, batchvars, update_steps, grad, applied, opt_steps,
                   sched_steps, metric>>

\* _train: the forward pass, loss / update_steps, self.scaler.scale(loss).backward()
Backward ==
    /\ pc = "forward"
    /\ grad' = backward(grad, ScaledLoss(batch_no, update_steps))
    /\ oplog' = Append(oplog, "backward")
    /\ pc' = IF UpdateDue(batch_no, update_steps) THEN "update" ELSE "evaluated"
    /\ UNCHANGED <<modelvars, batchvars, batch_no, update_steps, applied, opt_steps,
                   sched_steps, metric>>

\* _train: the next statement under "if i % self.args.update_steps == 0"
Update ==
    /\ pc = "update"
    /\ LET k == Len(oplog)
           stmt == UpdateStatements[k] IN
           /\ oplog' = Append(oplog, stmt)
           /\ pc' = IF k = Len(UpdateStatements) THEN "evaluated" ELSE "update"
           /\ grad' = CASE stmt = "unscale_" -> unscale_(grad)
                        [] stmt = "clip_grad_norm_" -> clip_grad_norm_(grad)
                        [] stmt = "zero_grad" -> zero_grad(grad)
                        [] OTHER -> grad
           /\ applied' = IF stmt = "step" THEN Append(applied, grad) ELSE applied
           /\ opt_steps' = IF stmt = "step" THEN opt_steps + 1 ELSE opt_steps
           /\ sched_steps' = IF stmt = "scheduler.step" THEN sched_steps + 1
                             ELSE sched_steps
    /\ UNCHANGED <<modelvars, batchvars, batch_no, update_steps, metric>>

\* decode, then the statement that accounts for the batch in the metric
Account ==
    /\ pc = "evaluated"
    /\ metric' = MetricStatement(handler, metric, batch_no)
    /\ pc' = "head"
    /\ UNCHANGED <<modelvars, batchvars, batch_no, update_steps, grad, oplog, applied,
                   opt_steps, sched_steps>>

\* the loader is exhausted: the loop ends and the handler returns
Return ==
    /\ pc = "head"
    /\ pc' = "returned"
    /\ UNCHANGED <<modelvars, batchvars, loopvars>>

\* bar, metric = progress_bar(loader), ChartMetric(), gradients zeroed
InitTrain ==
    /\ pc = "head"
    /\ args = Unset
    /\ inference = Unset
    /\ raw_sib = Unset
    /\ raw_cop = Unset
    /\ s_sib = Unset
    /\ s_cop = Unset
    /\ handler \in LoopHandlers
    /\ focus = Unset
    /\ batch_mask = Unset
    /\ labels = Unset
    /\ mask = Unset
    /\ s_edge = Unset
    /\ s_label = Unset
    /\ gold = Unset
    /\ ce = Unset
    /\ label_preds = Unset
    /\ reported = Unset
    /\ loss_value = Unset
    /\ batch_no = 0
    /\ update_steps \in 1..MaxUpdateSteps
    /\ grad = ZeroedGrad
    /\ oplog = <<>>
    /\ applied = <<>>
    /\ opt_steps = 0
    /\ sched_steps = 0
    /\ metric = {}

NextTrain ==
    \/ Fetch
    \/ Backward
    \/ Update
    \/ Account
    \/ Return

SpecTrain == InitTrain /\ [][NextTrain]_vars

\* ------------------------------------------------------------------ claims
\* C1: the returned sibling potential is symmetric under exchange of the two
\* dependents with the head fixed: s_sib[j,i,k] = s_sib[k,i,j] for all i, j, k.
C1_SibSymmetric ==
    pc = "forwarded" =>
        \A i \in Idx, j \in Idx, k \in Idx : s_sib[<<j, i, k>>] = s_sib[<<k, i, j>>]

\* forward() has run on a raw sibling tensor that is itself not symmetric in
\* its last two dimensions
C1_Witness ==
    /\ pc = "forwarded"
    /\ \E p \in Pos3 : raw_sib[p] # raw_sib[<<p[1], p[3], p[2]>>]

\* C2: the returned co-parent potential is symmetric under exchange of the two
\* heads with the dependent fixed: s_cop[j,i,k] = s_cop[j,k,i] for all i, j, k.
C2_CopSymmetric ==
    pc = "forwarded" =>
        \A i \in Idx, j \in Idx, k \in Idx : s_cop[<<j, i, k>>] = s_cop[<<j, k, i>>]

\* forward() has run on a raw co-parent tensor that is not symmetric in the two
\* dimensions that become the head and the co-parent
C2_Witness ==
    /\ pc = "forwarded"
    /\ \E p \in Pos3 : raw_cop[p] # raw_cop[<<p[2], p[1], p[3]>>]

\* C8: the engine is decided by the configuration alone: 'mfvi' constructs
\* MFVI, 'lbp' constructs LBP, each with the configured max_iter; when an
\* option is not configured the strategy is MFVI and max_iter is 3.
C8_EngineFromConfig ==
    pc # "new" =>
        /\ ("inference" \in DOMAIN args /\ args["inference"] = "mfvi")
               => inference.class = "MFVI"
        /\ ("inference" \in DOMAIN args /\ args["inference"] = "lbp")
               => inference.class = "LBP"
        /\ "inference" \notin DOMAIN args => inference.class = "MFVI"
        /\ "max_iter" \in DOMAIN args => inference.max_iter = args["max_iter"]
        /\ "max_iter" \notin DOMAIN args => inference.max_iter = DefaultMaxIter

\* a model configured with inference='lbp' and a max_iter other than the
\* default has been constructed and has run forward()
C8_Witness ==
    /\ pc = "forwarded"
    /\ "inference" \in DOMAIN args /\ args["inference"] = "lbp"
    /\ "max_iter" \in DOMAIN args /\ args["max_iter"] # DefaultMaxIter

\* C10: over the two interchangeable indices (a,b) the assembled value is the
\* raw score at (min(a,b), max(a,b)), so a diagonal entry is the raw diagonal
\* score taken once; and a raw tensor that differs from another only in
\* strictly-lower-triangular scores is assembled into the same potential.
C10_UpperTriangleOnly ==
    pc = "forwarded" =>
        /\ \A d \in Idx, h \in Idx, s \in Idx :
               s_sib[<<d, h, s>>] = raw_sib[<<h, Min(s, d), Max(s, d)>>]
        /\ \A d \in Idx, h \in Idx, c \in Idx :
               s_cop[<<d, h, c>>] = raw_cop[<<Min(h, c), Max(h, c), d>>]
        /\ (\A p \in Pos3 : p[2] <= p[3] => raw_sib[p] = BaseScore[p])
               => s_sib = SibPotential(BaseScore)
        /\ (\A p \in Pos3 : p[1] <= p[2] => raw_cop[p] = BaseScore[p])
               => s_cop = CopPotential(BaseScore)

\* forward() has run on raw tensors with non-zero diagonal scores in which a
\* strictly-lower-triangular score was overwritten
C10_Witness ==
    /\ pc = "forwarded"
    /\ \E h \in Idx, a \in Idx : raw_sib[<<h, a, a>>] # 0 /\ raw_cop[<<a, a, h>>] # 0
    /\ \E p \in Pos3 :
           /\ p[2] > p[3] /\ raw_sib[p] # BaseScore[p]
           /\ p[1] > p[2] /\ raw_cop[p] # BaseScore[p]

\* the batch has passed the statements that build the pairwise mask
MaskBuilt == pc \in {"masked", "scored", "estimated", "decoded", "reported"}

\* the VI model's loss() has run on the batch
VILossDone ==
    /\ pc \in {"estimated", "decoded", "reported"}
    /\ handler.parser = "vi"
    /\ handler.op # "predict"

\* the VI model's decode() has run on the batch
VIDecodeDone == pc \in {"decoded", "reported"} /\ handler.parser = "vi"

\* the marginal x is at least 0.5
AtLeastHalf(x) == 2 * x[1] >= x[2]

\* C3: at every position decode() returns an arg-max label index of the
\* position's label scores when the marginal is >= 0.5 (0.5 itself included)
\* and the sentinel -1 when the marginal is < 0.5.
C3_DecodeThreshold ==
    VIDecodeDone =>
        \A p \in Pos2 :
            IF AtLeastHalf(s_edge.val[p])
            THEN /\ label_preds[p] \in Labels
                 /\ \A k \in Labels : s_label[p][k] <= s_label[p][label_preds[p]]
            ELSE label_preds[p] = -1

\* decode() has run on marginals with an entry of exactly 0.5 that got a label
\* and an entry below 0.5
C3_Witness ==
    /\ VIDecodeDone
    /\ \E p \in Pos2 : 2 * s_edge.val[p][1] = s_edge.val[p][2] /\ label_preds[p] >= 0
    /\ \E p \in Pos2 : ~AtLeastHalf(s_edge.val[p])

\* C4: the predictions handed to the metric and to the relation builder are
\* -1 wherever the pairwise mask is false; in the VI parser a non-negative
\* prediction implies a true mask and a marginal >= 0.5 at that position.
C4_MaskedPositionsSentinel ==
    pc = "reported" =>
        /\ \A p \in Pos2 : ~mask[p] => reported.preds[p] = -1
        /\ handler.op = "predict" =>
               \A p \in DOMAIN reported.rels : ~mask[p] => reported.rels[p] = -1
        /\ handler.parser = "vi" =>
               \A p \in Pos2 :
                   reported.preds[p] >= 0 => mask[p] /\ AtLeastHalf(s_edge.val[p])

\* the VI parser has reported a chart in which decode() had put a label at a
\* position whose mask is false
C4_Witness ==
    /\ pc = "reported"
    /\ handler.parser = "vi"
    /\ \E p \in Pos2 : ~mask[p] /\ label_preds[p] >= 0
    /\ \E p \in Pos2 : reported.preds[p] >= 0

\* C5: the pairwise mask is false wherever either token is padding and
\* wherever the root is the dependent (row 0), and true where the root is the
\* head (column 0) of an unpadded non-root dependent.
C5_PairwiseMask ==
    MaskBuilt =>
        \A i \in Idx, j \in Idx :
            /\ (~batch_mask[i] \/ ~batch_mask[j]) => ~mask[<<i, j>>]
            /\ ~mask[<<0, j>>]
            /\ (i >= 1 /\ batch_mask[i]) => mask[<<i, 0>>]

\* the mask was built for a sentence with a padded position
C5_Witness ==
    /\ MaskBuilt
    /\ \E i \in Idx : ~batch_mask[i]
    /\ batch_mask[1] /\ mask[<<1, 0>>]

\* C6: the pairwise mask the VI parser hands to the inference engine and
\* filters its predictions with is false at every self-loop position (i, i).
C6_NoSelfLoops ==
    (MaskBuilt /\ handler.parser = "vi") => \A i \in Idx : ~mask[<<i, i>>]

\* the number of positions of S at or before p in row-major order
RowMajorRank(p, S) ==
    Cardinality({ r \in S : r[1] * MaxLen + r[2] <= p[1] * MaxLen + p[2] })

\* C7: the gold indicator loss() gives the engine is 1 exactly where
\* labels >= 0 and the mask is true, 0 elsewhere, and the rows given to the
\* label cross-entropy are exactly the rows of those positions.
C7_GoldArcs ==
    VILossDone =>
        LET arcs == { p \in Pos2 : labels[p] >= 0 /\ mask[p] } IN
        /\ \A p \in Pos2 : gold[p] = IF p \in arcs THEN 1 ELSE 0
        /\ Len(ce.input) = Cardinality(arcs)
        /\ Len(ce.target) = Cardinality(arcs)
        /\ \A p \in arcs :
               /\ ce.input[RowMajorRank(p, arcs)] = s_label[p]
               /\ ce.target[RowMajorRank(p, arcs)] = labels[p]

\* loss() has run on labels with a label >= 0 at a mask-false position, a
\* label of -1 at a mask-true position and two or more gold arcs
C7_Witness ==
    /\ VILossDone
    /\ \E p \in Pos2 : labels[p] >= 0 /\ ~mask[p]
    /\ \E p \in Pos2 : labels[p] < 0 /\ mask[p]
    /\ Len(ce.target) >= 2

\* C9: building the pairwise mask leaves batch.mask as it was, loss() leaves
\* the label scores, the labels and the mask as they were, and decode() leaves
\* the marginals and the label scores as they were.
C9_CallerTensorsUnchanged ==
    [][/\ (pc = "loaded" /\ pc' = "masked") => batch_mask' = batch_mask
       /\ (pc = "scored" /\ pc' = "estimated") =>
              /\ s_label' = s_label
              /\ labels' = labels
              /\ mask' = mask
              /\ batch_mask' = batch_mask
       /\ (pc = "estimated" /\ pc' = "decoded") =>
              /\ s_edge' = s_edge
              /\ s_label' = s_label]_vars

\* a batch went through the mask construction, loss() and decode(): row 0 of
\* the pairwise mask was zeroed, decode() filled a -1, and the root is still
\* unpadded in batch.mask
C9_Witness ==
    /\ pc = "decoded"
    /\ handler.parser = "vi"
    /\ handler.op = "train"
    /\ batch_mask[0] /\ batch_mask[1] /\ ~mask[<<0, 1>>]
    /\ \E p \in Pos2 : label_preds[p] = -1 /\ ~AtLeastHalf(s_edge.val[p])

\* C11: in the VI parser the decoder is only ever given the engine's marginals:
\* from the moment loss() or the engine has returned, the name s_edge holds what
\* the engine returned, decode is called on it, and the probabilities _predict
\* emits are cut from it; the scorer's unary scores reach neither.
C11_DecoderGetsMarginals ==
    (pc \in {"estimated", "decoded", "reported"} /\ handler.parser = "vi") =>
        /\ s_edge.by = "engine"
        /\ s_edge.val \in EngineMarginals(focus)
        /\ pc # "estimated" => label_preds = decode(s_edge.val, s_label)
        /\ (pc = "reported" /\ handler.op = "predict") =>
               \/ reported.probs.by = "nobody"
               \/ /\ reported.probs.by = "engine"
                  /\ reported.probs.val = Slice(s_edge.val, BatchLens(batch_mask) - 1)
C11_Witness ==
    /\ pc = "decoded"
    /\ handler.parser = "vi"
    /\ handler.op = "train"
    /\ s_edge.by = "engine"
    /\ \E p \in Pos2 : label_preds[p] # -1

\* C16: with batch.lens = L the unpadded positions of a sentence, root included,
\* _predict hands build_relations one row for each of the L - 1 tokens 1..L-1,
\* each row covering all L heads 0..L-1: no token dropped, no padding included.
C16_OneRowPerToken ==
    (pc = "reported" /\ handler.op = "predict") =>
        LET L == BatchLens(batch_mask) IN
            DOMAIN reported.rels = (1..(L - 1)) \X (0..(L - 1))

\* C17: loss() returns a finite loss for every batch of finite scores, also
\* when no position of the batch has a gold arc.
C17_LossFinite ==
    (pc \in {"estimated", "decoded", "reported"} /\ handler.parser = "vi"
        /\ handler.op # "predict") => loss_value = "finite"

\* a _train loop is being followed
Training == handler.op = "train" /\ pc \in {"head", "forward", "update", "evaluated", "returned"}

\* the batches (k - 1) * U + 1 .. k * U, each with its loss over U
StepBatches(k, U) == { <<b, U>> : b \in ((k - 1) * U + 1)..(k * U) }

\* C12: in _train every batch runs backward on its loss over U; the six update
\* statements run after batch i exactly when i mod U = 0; after N batches
\* floor(N / U) optimizer steps and as many scheduler steps have run.
C12_UpdateEveryU ==
    Training =>
        /\ pc \in {"head", "returned"} =>
               /\ opt_steps = batch_no \div update_steps
               /\ sched_steps = batch_no \div update_steps
        /\ pc \in {"update", "evaluated"} =>
               /\ oplog[1] = "backward"
               /\ <<batch_no, update_steps>> \in
                      grad.terms \cup UNION { applied[k].terms : k \in DOMAIN applied }
        /\ pc = "evaluated" =>
               IF batch_no % update_steps = 0
               THEN /\ Len(oplog) = 7
                    /\ { oplog[k] : k \in 2..7 } =
                           {"unscale_", "clip_grad_norm_", "step", "update",
                            "scheduler.step", "zero_grad"}
               ELSE oplog = <<"backward">>
C12_Witness ==
    /\ Training
    /\ pc = "returned"
    /\ update_steps = 3
    /\ batch_no = 7
    /\ opt_steps = 2
    /\ sched_steps = 2

\* C13: in an updating batch the calls run in the order backward, unscale_,
\* clip_grad_norm_, optimizer step, scaler update, scheduler step, zero_grad;
\* gradients are never clipped while scaled, the optimizer never steps on
\* unclipped or scaled gradients, and every step finds the gradient of the
\* backward just run.
C13_UpdateOrder ==
    Training =>
        /\ pc \in {"update", "evaluated"} =>
               \E n \in 1..7 :
                   oplog = SubSeq(<<"backward", "unscale_", "clip_grad_norm_", "step",
                                    "update", "scheduler.step", "zero_grad">>, 1, n)
        /\ grad.clipped # "scaled"
        /\ \A k \in DOMAIN applied :
               /\ applied[k].scaled = FALSE
               /\ applied[k].clipped = "unscaled"
               /\ <<k * update_steps, update_steps>> \in applied[k].terms
C13_Witness ==
    /\ Training
    /\ pc = "evaluated"
    /\ Len(oplog) = 7
    /\ Len(applied) = 2
    /\ update_steps = 2

\* C14: the k-th optimizer step applies the gradient of exactly the U batches
\* since the step before; when _train returns after N batches the gradients of
\* the last N mod U batches are held by the parameters, applied by no step.
C14_ExactlyUBatches ==
    Training =>
        /\ \A k \in DOMAIN applied : applied[k].terms = StepBatches(k, update_steps)
        /\ pc = "returned" =>
               grad.terms = { <<b, update_steps>> :
                                b \in ((batch_no - (batch_no % update_steps)) + 1)..batch_no }
C14_Witness ==
    /\ Training
    /\ pc = "returned"
    /\ update_steps = 3
    /\ batch_no = 5
    /\ Len(applied) = 1
    /\ Cardinality(grad.terms) = 2

\* C15: after k batches the running metric is the accumulation of the k
\* per-batch ChartMetric values, in VI _train as in Biaffine _train and both
\* _evaluate loops.
C15_MetricAccumulates ==
    (handler \in LoopHandlers /\ pc \in {"head", "returned"}) => metric = 1..batch_no

====
